---- MODULE Spec2Model ----
(***************************************************************************)
(* A model of package zaplogger (src/logger.go): the construction of a     *)
(* logger handle from a LogConfig (NewZapLogger, getWriter) and the global *)
(* logger slot defaultZapLogger guarded by the sync.RWMutex resetLock      *)
(* (InitDefaultLogger, the global emit functions, ZapLogWriter.Write and   *)
(* the accessors).                                                         *)
(*                                                                         *)
(* Two specifications share the definitions:                               *)
(*   SpecNew  sequential construction over a wide range of configurations; *)
(*   Spec     the goroutines of a process operating on the global slot.    *)
(***************************************************************************)
EXTENDS Integers, Sequences, FiniteSets, TLC

VARIABLES
    configs,            \* the LogConfig objects callers hold, by pointer
    last,               \* SpecNew: the record of the last construction call
    built,              \* SpecNew: the configs that have been through construction
    gw,                 \* SpecNew: the input and result of the last direct getWriter call
    proc,               \* "boot" before init() has run, "running", "exited", "crashed"
    defaultZapLogger,   \* the global slot
    wholder,            \* the goroutine inside resetLock.Lock()..Unlock(), or 0
    readerCount,        \* the number of read locks of resetLock currently held
    stack,              \* per goroutine: its frames of this package, outermost first
    budget,             \* operations the goroutines may still start
    fault,              \* the last panic or stack overflow, with the stack it left
    acq,                \* the call that acquired the exclusive lock last
    nextId              \* the number the next construction call gets

vars == <<configs, last, built, gw, proc, defaultZapLogger, wholder,
          readerCount, stack, budget, fault, acq, nextId>>

----------------------------------------------------------------------------
(* Bounds *)

MaxOps == 2             \* operations started over a run of Spec
MaxDepth == 2           \* frames of this package on one goroutine's stack
MaxThreshold == 1       \* thresholds supplied range over -1 .. MaxThreshold
NumCfg == 2             \* LogConfig objects
MaxCalls == 2           \* calls over a run of SpecNew

\* The goroutines of the process that use the package.
Threads == {1, 2}
CfgIds == 1 .. NumCfg
Thresholds == -1 .. MaxThreshold

----------------------------------------------------------------------------
(* Values *)

\* The defaults NewZapLogger substitutes.
DefaultMaxAge == 30
DefaultMaxBackup == 3
DefaultMaxSize == 100

\* A value of type interface{}: its dynamic type and its value.
Dyn(type, val) == [type |-> type, val |-> val]
NilIface == Dyn("nil", "")
Stdout == Dyn("*os.File", "stdout")

\* The dynamic types whose method set holds Write([]byte) (int, error).
ImplementsIoWriter(d) == d.type \in {"*os.File", "*NullWriter", "*ZapLogWriter"}

\* The nil io.Writer getWriter returns beside an error.
NilWriter == [type |-> "nil", val |-> ""]

LogConfig(dest, size, backup, age, compress) ==
    [FilenameOrIoWriter |-> dest, FileMaxSize |-> size, FileMaxBackup |-> backup,
     FileMaxAge |-> age, FileCompress |-> compress]

\* &LogConfig{}
ZeroConfig == LogConfig(NilIface, 0, 0, 0, FALSE)

\* A nil *ZapLogger.
NilLogger == [id |-> 0]

----------------------------------------------------------------------------
(* getWriter, lines 84-98 *)

\* getWriter with the age and backup thresholds exchanged in the sink.
getWriterSwapped(config) ==
    LET d == config.FilenameOrIoWriter IN
    CASE d.type = "string" ->
            [w |-> [type |-> "*lumberjack.Logger",
                    Filename |-> d.val,
                    MaxSize |-> config.FileMaxSize,
                    MaxBackups |-> config.FileMaxAge,
                    MaxAge |-> config.FileMaxBackup,
                    Compress |-> config.FileCompress],
             err |-> FALSE]
      [] d.type # "string" /\ ImplementsIoWriter(d) ->
            [w |-> d, err |-> FALSE]
      [] OTHER ->
            [w |-> NilWriter, err |-> TRUE]

\* getWriter without the io.Writer case.
getWriterPathOnly(config) ==
    LET d == config.FilenameOrIoWriter IN
    CASE d.type = "string" ->
            [w |-> [type |-> "*lumberjack.Logger",
                    Filename |-> d.val,
                    MaxSize |-> config.FileMaxSize,
                    MaxBackups |-> config.FileMaxBackup,
                    MaxAge |-> config.FileMaxAge,
                    Compress |-> config.FileCompress],
             err |-> FALSE]
      [] OTHER ->
            [w |-> NilWriter, err |-> TRUE]

getWriter(config) ==
    LET d == config.FilenameOrIoWriter IN
    CASE d.type = "string" ->
            [w |-> [type |-> "*lumberjack.Logger",
                    Filename |-> d.val,
                    MaxSize |-> config.FileMaxSize,
                    MaxBackups |-> config.FileMaxBackup,
                    MaxAge |-> config.FileMaxAge,
                    Compress |-> config.FileCompress],
             err |-> FALSE]
      [] d.type # "string" /\ ImplementsIoWriter(d) ->
            [w |-> d, err |-> FALSE]
      [] OTHER ->
            [w |-> NilWriter, err |-> TRUE]

----------------------------------------------------------------------------
(* NewZapLogger, lines 41-72 *)

\* applyDefaults with < in place of <=: a zero threshold is kept.
applyDefaultsStrict(config) ==
    LET c1 == IF config.FileMaxAge < 0
              THEN [config EXCEPT !.FileMaxAge = DefaultMaxAge] ELSE config
        c2 == IF c1.FileMaxBackup < 0
              THEN [c1 EXCEPT !.FileMaxBackup = DefaultMaxBackup] ELSE c1
    IN  IF c2.FileMaxSize < 0
        THEN [c2 EXCEPT !.FileMaxSize = DefaultMaxSize] ELSE c2

\* Lines 42-52: the three thresholds.
applyDefaults(config) ==
    LET c1 == IF config.FileMaxAge <= 0
              THEN [config EXCEPT !.FileMaxAge = DefaultMaxAge] ELSE config
        c2 == IF c1.FileMaxBackup <= 0
              THEN [c1 EXCEPT !.FileMaxBackup = DefaultMaxBackup] ELSE c1
    IN  IF c2.FileMaxSize <= 0
        THEN [c2 EXCEPT !.FileMaxSize = DefaultMaxSize] ELSE c2

\* NewZapLogger falling back to standard output for the handle only, the
\* configuration keeping the destination that failed.
NewZapLoggerKeepDest(ptr, config, logLevel, id) ==
    LET c1 == applyDefaults(config)
        r1 == getWriter(c1)
        r2 == IF r1.err THEN getWriter([c1 EXCEPT !.FilenameOrIoWriter = Stdout]) ELSE r1
        panics == r1.err /\ r2.err
    IN  [config |-> c1,
         zl |-> IF panics THEN NilLogger
                ELSE [id |-> id, logWriter |-> r2.w, config |-> ptr,
                      logLevel |-> logLevel],
         attempts |-> IF r1.err THEN 2 ELSE 1,
         first |-> r1,
         final |-> r2,
         emitted |-> << >>,
         panicked |-> panics]

\* NewZapLogger turning the age from days into hours in the configuration.
NewZapLoggerHours(ptr, config, logLevel, id) ==
    LET c0 == applyDefaults(config)
        c1 == [c0 EXCEPT !.FileMaxAge = @ * 24]
        r1 == getWriter(c1)
        c2 == IF r1.err THEN [c1 EXCEPT !.FilenameOrIoWriter = Stdout] ELSE c1
        r2 == IF r1.err THEN getWriter(c2) ELSE r1
        panics == r1.err /\ r2.err
    IN  [config |-> c2,
         zl |-> IF panics THEN NilLogger
                ELSE [id |-> id, logWriter |-> r2.w, config |-> ptr,
                      logLevel |-> logLevel],
         attempts |-> IF r1.err THEN 2 ELSE 1,
         first |-> r1,
         final |-> r2,
         emitted |-> << >>,
         panicked |-> panics]

\* The whole call on the configuration object `config` that the pointer `ptr`
\* names, as construction call number `id` (the identity of the handle it
\* allocates at line 53): the object as the call leaves it, the handle
\* returned (NilLogger when the call panics), the number of getWriter calls
\* made with the results of the first and of the last, the log records the
\* call emitted, and whether line 62 panicked.
NewZapLogger(ptr, config, logLevel, id) ==
    LET c1 == applyDefaults(config)
        r1 == getWriter(c1)
        c2 == IF r1.err THEN [c1 EXCEPT !.FilenameOrIoWriter = Stdout] ELSE c1
        r2 == IF r1.err THEN getWriter(c2) ELSE r1
        panics == r1.err /\ r2.err
    IN  [config |-> c2,
         zl |-> IF panics THEN NilLogger
                ELSE [id |-> id, logWriter |-> r2.w, config |-> ptr,
                      logLevel |-> logLevel],
         attempts |-> IF r1.err THEN 2 ELSE 1,
         first |-> r1,
         final |-> r2,
         emitted |-> << >>,
         panicked |-> panics]

----------------------------------------------------------------------------
(* Severities and the zap logger behind a handle *)

\* zapcore.Level, in order.
LevelRank(level) ==
    CASE level = "debug"  -> -1
      [] level = "info"   -> 0
      [] level = "warn"   -> 1
      [] level = "error"  -> 2
      [] level = "dpanic" -> 3
      [] level = "panic"  -> 4
      [] level = "fatal"  -> 5

\* The level enablers the callers pass (zapcore.Level values).
LogLevels == {"debug", "error"}

\* The core built at line 67 writes a record only at or above logLevel.
Enabled(h, level) == LevelRank(level) >= LevelRank(h.logLevel)

\* The console encoder of lines 100-105 turns a record into one line: the
\* capital level label, the message, a newline (bytes as numbers).
Encode(level, msg) == <<LevelRank(level) + 66>> \o msg \o <<10>>

\* How a sugarLogger call ends once the record is written: Panic panics,
\* Fatal calls os.Exit, and DPanic returns because line 69 builds the logger
\* without the development option.
AfterLog(level) ==
    CASE level = "panic" -> "panic"
      [] level = "fatal" -> "exit"
      [] OTHER -> "return"

\* The global emit functions, lines 155-225, and the severity each logs at.
EmitFns == {"Debug", "Debugf", "Info", "Infof", "Warn", "Warnf", "Fatal",
            "Fatalf", "Error", "Errorf", "DPanic", "DPanicf"}

LevelOf(fn) ==
    CASE fn \in {"Debug", "Debugf"}   -> "debug"
      [] fn \in {"Info", "Infof"}     -> "info"
      [] fn \in {"Warn", "Warnf"}     -> "warn"
      [] fn \in {"Fatal", "Fatalf"}   -> "fatal"
      [] fn \in {"Error", "Errorf"}   -> "error"
      [] fn \in {"DPanic", "DPanicf"} -> "dpanic"

\* The switch without its upper-case and empty labels.
WriteLevelLower(label) ==
    CASE label = "debug" -> "debug"
      [] label = "info"  -> "info"
      [] label = "warn"  -> "warn"
      [] label = "error" -> "error"
      [] label = "panic" -> "panic"
      [] label = "fatal" -> "fatal"
      [] OTHER -> "debug"

\* The switch of ZapLogWriter.Write, lines 245-260.
WriteLevel(label) ==
    CASE label \in {"debug", "DEBUG"}  -> "debug"
      [] label \in {"info", "INFO", ""} -> "info"
      [] label \in {"warn", "WARN"}    -> "warn"
      [] label \in {"error", "ERROR"}  -> "error"
      [] label \in {"panic", "PANIC"}  -> "panic"
      [] label \in {"fatal", "FATAL"}  -> "fatal"
      [] OTHER -> "info"

\* The labels adapters are constructed with, NewZapLogWriter line 239.
Labels == {"", "info", "INFO", "Info", "debug", "DEBUG", "warn", "WARN",
           "error", "ERROR", "panic", "PANIC", "fatal", "FATAL", "trace"}

\* The buffers written and the messages emitted.
Buffers == {<< >>, <<104, 105>>}
EmitMsgs == {<<104, 105>>}

Accessors == {"GetDefaultZapLogger", "GetDefaultSugarLogger"}

----------------------------------------------------------------------------
(* The state after the package is loaded, and init(), lines 80-82 *)

NoCall == [op |-> "none"]
NoFault == [kind |-> "none"]
Fault(kind, frames) == [kind |-> kind, frames |-> frames]
NoGw == [called |-> FALSE]

InitCommon ==
    /\ last = NoCall
    /\ built = {}
    /\ gw = NoGw
    /\ proc = "boot"
    /\ defaultZapLogger = NilLogger
    /\ wholder = 0
    /\ readerCount = 0
    /\ stack = [t \in Threads |-> << >>]
    /\ fault = NoFault
    /\ acq = 0
    /\ nextId = 1

\* init() runs before any goroutine of the program exists: the whole of
\* InitDefaultLogger(&LogConfig{}, zap.DebugLevel) on a configuration of its
\* own (pointer 0).
PackageInit ==
    /\ proc = "boot"
    /\ LET r == NewZapLogger(0, ZeroConfig, "debug", nextId) IN
        /\ defaultZapLogger' = r.zl
        /\ wholder' = IF r.panicked THEN 1 ELSE 0
        /\ proc' = IF r.panicked THEN "crashed" ELSE "running"
    /\ acq' = nextId
    /\ nextId' = nextId + 1
    /\ UNCHANGED <<configs, last, built, gw, readerCount, stack, budget, fault>>

----------------------------------------------------------------------------
(* SpecNew: construction calls made one after the other *)

Destinations ==
    {Dyn("string", "app.log"), Dyn("*NullWriter", "w"),
     Dyn("*ZapLogWriter", "info"), Stdout, NilIface, Dyn("int", "7")}

AllConfigs ==
    {LogConfig(d, s, b, a, z) :
        d \in Destinations, s \in Thresholds, b \in Thresholds,
        a \in Thresholds, z \in BOOLEAN}

InitNew ==
    /\ InitCommon
    /\ budget = MaxCalls
    /\ \E c \in AllConfigs : configs = [i \in CfgIds |-> IF i = 1 THEN c ELSE ZeroConfig]

CallRecord(op, c, r) ==
    [op |-> op, cfg |-> c, before |-> configs[c], zl |-> r.zl,
     attempts |-> r.attempts, first |-> r.first, final |-> r.final,
     emitted |-> r.emitted, panicked |-> r.panicked]

\* A caller's NewZapLogger(config, logLevel), lines 41-72.
NewZapLoggerCall(c, logLevel) ==
    /\ proc = "running"
    /\ budget > 0
    /\ LET r == NewZapLogger(c, configs[c], logLevel, nextId) IN
        /\ configs' = [configs EXCEPT ![c] = r.config]
        /\ last' = CallRecord("NewZapLogger", c, r)
        /\ proc' = IF r.panicked THEN "crashed" ELSE proc
    /\ built' = built \cup {c}
    /\ budget' = budget - 1
    /\ nextId' = nextId + 1
    /\ UNCHANGED <<fault, gw, defaultZapLogger, wholder, readerCount, stack, acq>>

\* A caller's InitDefaultLogger(config, logLevel), lines 74-78, with no other
\* goroutine running: Lock, the construction, the store, Unlock.  A panic at
\* line 62 leaves before the store and before Unlock.
InitDefaultLoggerCall(c, logLevel) ==
    /\ proc = "running"
    /\ budget > 0
    /\ wholder = 0 /\ readerCount = 0
    /\ LET r == NewZapLogger(c, configs[c], logLevel, nextId) IN
        /\ configs' = [configs EXCEPT ![c] = r.config]
        /\ last' = CallRecord("InitDefaultLogger", c, r)
        /\ defaultZapLogger' = IF r.panicked THEN defaultZapLogger ELSE r.zl
        /\ wholder' = IF r.panicked THEN 1 ELSE 0
        /\ proc' = IF r.panicked THEN "crashed" ELSE proc
    /\ built' = built \cup {c}
    /\ acq' = nextId
    /\ budget' = budget - 1
    /\ nextId' = nextId + 1
    /\ UNCHANGED <<fault, gw, readerCount, stack>>

\* getWriter(config) called on its own, lines 84-98.
getWriterCall(c) ==
    /\ proc = "running"
    /\ budget > 0
    /\ gw' = [called |-> TRUE, config |-> configs[c], res |-> getWriter(configs[c])]
    /\ budget' = budget - 1
    /\ UNCHANGED <<configs, last, built, proc, defaultZapLogger, wholder,
                   readerCount, stack, fault, acq, nextId>>

NextNew ==
    \/ PackageInit
    \/ \E c \in CfgIds, l \in LogLevels : NewZapLoggerCall(c, l)
    \/ \E c \in CfgIds, l \in LogLevels : InitDefaultLoggerCall(c, l)
    \/ \E c \in CfgIds : getWriterCall(c)

SpecNew == InitNew /\ [][NextNew]_vars

----------------------------------------------------------------------------
(* Spec: goroutines on the global slot *)

\* The configurations the goroutines pass to InitDefaultLogger: the first has
\* an adapter of this package as its destination, the others a file path.
SpecConfig(i) ==
    IF i = 1 THEN LogConfig(Dyn("*ZapLogWriter", "info"), 0, 0, 0, FALSE)
    ELSE LogConfig(Dyn("string", "app.log"), -1, 1, 0, TRUE)

Init ==
    /\ InitCommon
    /\ budget = MaxOps
    /\ configs = [i \in CfgIds |-> SpecConfig(i)]

\* A frame of a function of this package on a goroutine's stack.
\*   op     "init", "emit", "write" or "acc"
\*   pc     the line the frame is at
\*   arg    the logLevel (init), the severity (emit), the label (write)
\*   cfg    the pointer passed to InitDefaultLogger
\*   b      the buffer (write) or the message (emit)
\*   id     the construction call number (init)
\*   h      the identity of the handle the frame read from the slot, -1 before
\*   lvl    the severity of the log call the frame issued, "" before
\*   msg    the message of that log call
\*   ncalls the number of log calls the frame issued
\*   raced  whether the frame read the slot inside a writer's Lock..Unlock
\*   n      the length the frame returns, -1 before
Frame(op, pc, arg, cfg, b, id) ==
    [op |-> op, pc |-> pc, arg |-> arg, cfg |-> cfg, b |-> b, id |-> id,
     h |-> -1, lvl |-> "", msg |-> << >>, ncalls |-> 0, raced |-> FALSE, n |-> -1]

Top(t) == stack[t][Len(stack[t])]
Depth(t) == Len(stack[t])
SetTop(t, f) == [stack EXCEPT ![t] = [@ EXCEPT ![Len(@)] = f]]
Push(t, f) == [stack EXCEPT ![t] = Append(@, f)]
At(t, ops, pc) == Depth(t) > 0 /\ Top(t).op \in ops /\ Top(t).pc = pc

\* A goroutine that is in no operation starts one.
CanCall(t) == proc = "running" /\ Depth(t) = 0 /\ budget > 0

\* sync.RWMutex: RLock waits while a writer holds or awaits the lock; Lock
\* first excludes the other writers and later readers, then waits for the
\* read locks held to be released.
CanRLock == wholder = 0
CanLockAnnounce == wholder = 0
CanLockAcquire == readerCount = 0

\* The goroutine whose InitDefaultLogger is past Lock and not past Unlock.
WriterInSection ==
    \E t \in Threads : At(t, {"init"}, "new") \/ At(t, {"init"}, "unlock")

(* InitDefaultLogger, lines 74-78 *)

CallInit(t, c, logLevel) ==
    /\ CanCall(t)
    /\ stack' = Push(t, Frame("init", "lock", logLevel, c, << >>, nextId))
    /\ nextId' = nextId + 1
    /\ budget' = budget - 1
    /\ UNCHANGED <<fault, configs, last, built, gw, proc, defaultZapLogger, wholder,
                   readerCount, acq>>

\* Line 75, first half: the writer is announced.
LockAnnounce(t) ==
    /\ proc = "running"
    /\ At(t, {"init"}, "lock")
    /\ CanLockAnnounce
    /\ wholder' = t
    /\ stack' = SetTop(t, [Top(t) EXCEPT !.pc = "wait"])
    /\ UNCHANGED <<configs, last, built, gw, proc, defaultZapLogger,
                   readerCount, budget, fault, acq, nextId>>

\* Line 75, second half: the readers have left.
LockAcquire(t) ==
    /\ proc = "running"
    /\ At(t, {"init"}, "wait")
    /\ CanLockAcquire
    /\ acq' = Top(t).id
    /\ stack' = SetTop(t, [Top(t) EXCEPT !.pc = "new"])
    /\ UNCHANGED <<configs, last, built, gw, proc, defaultZapLogger, wholder,
                   readerCount, budget, fault, nextId>>

\* Line 76: the construction and the store.  A panic at line 62 unwinds the
\* frame before the store and before Unlock; the caller recovers or the
\* process dies.
Construct(t) ==
    /\ proc = "running"
    /\ At(t, {"init"}, "new")
    /\ LET f == Top(t)
           r == NewZapLogger(f.cfg, configs[f.cfg], f.arg, f.id)
       IN  /\ configs' = [configs EXCEPT ![f.cfg] = r.config]
           /\ IF r.panicked
              THEN /\ stack' = [stack EXCEPT ![t] = << >>]
                   /\ proc' \in {"running", "crashed"}
                   /\ fault' = Fault("panic", stack[t])
                   /\ UNCHANGED defaultZapLogger
              ELSE /\ defaultZapLogger' = r.zl
                   /\ stack' = SetTop(t, [f EXCEPT !.pc = "unlock"])
                   /\ UNCHANGED <<proc, fault>>
    /\ UNCHANGED <<last, built, gw, wholder, readerCount, budget, acq, nextId>>

\* Line 77.
Unlock(t) ==
    /\ proc = "running"
    /\ At(t, {"init"}, "unlock")
    /\ wholder' = 0
    /\ stack' = SetTop(t, [Top(t) EXCEPT !.pc = "ret"])
    /\ UNCHANGED <<configs, last, built, gw, proc, defaultZapLogger,
                   readerCount, budget, fault, acq, nextId>>

(* The global emit functions, lines 155-225, and ZapLogWriter.Write,
   lines 243-263 *)

CallEmit(t, fn, msg) ==
    /\ CanCall(t)
    /\ stack' = Push(t, Frame("emit", "rlock", LevelOf(fn), 0, msg, 0))
    /\ budget' = budget - 1
    /\ UNCHANGED <<fault, configs, last, built, gw, proc, defaultZapLogger, wholder,
                   readerCount, acq, nextId>>

CallWrite(t, label, b) ==
    /\ CanCall(t)
    /\ stack' = Push(t, Frame("write", "rlock", label, 0, b, 0))
    /\ budget' = budget - 1
    /\ UNCHANGED <<fault, configs, last, built, gw, proc, defaultZapLogger, wholder,
                   readerCount, acq, nextId>>

\* resetLock.RLock(), the first line of each of them; also the RLock of a
\* Write that a logger's core calls as its sink.
RLock(t) ==
    /\ proc = "running"
    /\ At(t, {"emit", "write"}, "rlock")
    /\ CanRLock
    /\ readerCount' = readerCount + 1
    /\ stack' = SetTop(t, [Top(t) EXCEPT !.pc = "deleg"])
    /\ UNCHANGED <<configs, last, built, gw, proc, defaultZapLogger, wholder,
                   budget, fault, acq, nextId>>

\* The severity a frame logs at: fixed by the function (emit), chosen by the
\* switch on the label (write).
FrameLevel(f) == IF f.op = "write" THEN WriteLevel(f.arg) ELSE f.arg

\* What follows the log call of the frame on top of goroutine t's stack, the
\* stack being st with that frame at pc "logged": the call returns, or it
\* panics through every frame of the goroutine (none of them defers or
\* recovers, so no read lock they hold is released), or it ends the process.
Finish(t, st, level) ==
    CASE AfterLog(level) = "return" ->
            /\ stack' = [st EXCEPT ![t] = [@ EXCEPT ![Len(@)].pc = "runlock"]]
            /\ UNCHANGED <<proc, fault>>
      [] AfterLog(level) = "panic" ->
            /\ stack' = [st EXCEPT ![t] = << >>]
            /\ proc' \in {"running", "crashed"}
            /\ fault' = Fault("panic", st[t])
      [] AfterLog(level) = "exit" ->
            /\ stack' = st
            /\ proc' = "exited"
            /\ UNCHANGED fault

\* The delegated call, defaultZapLogger.sugarLogger.<Level>(...): the slot is
\* read, and the core of the handle writes the encoded record to the
\* handle's sink when the severity is enabled.  A sink that is a
\* ZapLogWriter is a call of its Write on this goroutine.  A Write called as
\* a sink logs on the same handle again (the slot cannot change while the
\* goroutine holds a read lock), so a nested Write whose own record is
\* enabled nests without end: frames beyond MaxDepth stand for the overflow
\* of the goroutine's stack, which ends the process.
Delegate(t) ==
    /\ proc = "running"
    /\ At(t, {"emit", "write"}, "deleg")
    /\ LET f == Top(t)
           h == defaultZapLogger
           level == FrameLevel(f)
           g == [f EXCEPT !.h = h.id, !.lvl = level, !.msg = f.b,
                          !.ncalls = f.ncalls + 1, !.raced = WriterInSection,
                          !.pc = "logged"]
       IN  IF h = NilLogger
           THEN /\ stack' = [stack EXCEPT ![t] = << >>]
                /\ proc' \in {"running", "crashed"}
                /\ fault' = Fault("panic", SetTop(t, g)[t])
           ELSE IF Enabled(h, level) /\ h.logWriter.type = "*ZapLogWriter"
           THEN IF Depth(t) < MaxDepth
                THEN /\ stack' = [stack EXCEPT ![t] =
                            Append([@ EXCEPT ![Len(@)] = g],
                                   Frame("write", "rlock", h.logWriter.val, 0,
                                         Encode(level, f.b), 0))]
                     /\ UNCHANGED <<proc, fault>>
                ELSE /\ stack' = SetTop(t, g)
                     /\ proc' = "crashed"
                     /\ fault' = Fault("overflow", SetTop(t, g)[t])
           ELSE Finish(t, SetTop(t, g), level)
    /\ UNCHANGED <<configs, last, built, gw, defaultZapLogger, wholder,
                   readerCount, budget, acq, nextId>>

\* resetLock.RUnlock(), and for Write the return value of line 262.
RUnlock(t) ==
    /\ proc = "running"
    /\ At(t, {"emit", "write"}, "runlock")
    /\ readerCount' = readerCount - 1
    /\ stack' = SetTop(t, [Top(t) EXCEPT !.pc = "ret",
                            !.n = IF Top(t).op = "write" THEN Len(Top(t).b) ELSE -1])
    /\ UNCHANGED <<configs, last, built, gw, proc, defaultZapLogger, wholder,
                   budget, fault, acq, nextId>>

(* The accessors, lines 227-233 *)

CallAccessor(t, name) ==
    /\ CanCall(t)
    /\ stack' = Push(t, Frame("acc", "read", name, 0, << >>, 0))
    /\ budget' = budget - 1
    /\ UNCHANGED <<fault, configs, last, built, gw, proc, defaultZapLogger, wholder,
                   readerCount, acq, nextId>>

\* The read of the slot and of the handle's field, with no lock taken.  A
\* read that races with the store of line 76 sees the slot before or after
\* it, and may see the new handle without its fields (0).
AccessorRead(t) ==
    /\ proc = "running"
    /\ At(t, {"acc"}, "read")
    /\ \E v \in {defaultZapLogger.id} \cup (IF WriterInSection THEN {0} ELSE {}) :
         stack' = SetTop(t, [Top(t) EXCEPT !.h = v, !.raced = WriterInSection,
                                            !.pc = "ret"])
    /\ UNCHANGED <<configs, last, built, gw, proc, defaultZapLogger, wholder,
                   readerCount, budget, fault, acq, nextId>>

(* Returning *)

\* The frame on top returns.  A Write called as a sink returns into the log
\* call of the frame below, which then ends as its severity says.
Return(t) ==
    /\ proc = "running"
    /\ Depth(t) > 0 /\ Top(t).pc = "ret"
    /\ LET st == [stack EXCEPT ![t] = SubSeq(@, 1, Len(@) - 1)] IN
       IF Depth(t) = 1
       THEN stack' = st /\ UNCHANGED <<proc, fault>>
       ELSE Finish(t, st, st[t][Len(st[t])].lvl)
    /\ UNCHANGED <<configs, last, built, gw, defaultZapLogger, wholder,
                   readerCount, budget, acq, nextId>>

Next ==
    \/ PackageInit
    \/ \E t \in Threads, c \in CfgIds, l \in LogLevels : CallInit(t, c, l)
    \/ \E t \in Threads : LockAnnounce(t)
    \/ \E t \in Threads : LockAcquire(t)
    \/ \E t \in Threads : Construct(t)
    \/ \E t \in Threads : Unlock(t)
    \/ \E t \in Threads, fn \in EmitFns, m \in EmitMsgs : CallEmit(t, fn, m)
    \/ \E t \in Threads, l \in Labels, b \in Buffers : CallWrite(t, l, b)
    \/ \E t \in Threads : RLock(t)
    \/ \E t \in Threads : Delegate(t)
    \/ \E t \in Threads : RUnlock(t)
    \/ \E t \in Threads, a \in Accessors : CallAccessor(t, a)
    \/ \E t \in Threads : AccessorRead(t)
    \/ \E t \in Threads : Return(t)

Spec == Init /\ [][Next]_vars

----------------------------------------------------------------------------
(* Properties of construction, checked under SpecNew *)

Constructed == last.op # "none"
After == configs[last.cfg]

\* The value a threshold is to have after construction.
Resolved(supplied, default) == IF supplied > 0 THEN supplied ELSE default

\* C4: after NewZapLogger each threshold equals the value supplied when that
\* is positive and its own default (100, 3, 30) otherwise, whatever the other
\* two are, and a rotating file sink built from the configuration carries
\* these values.
C4_Thresholds ==
    Constructed =>
        /\ After.FileMaxSize = Resolved(last.before.FileMaxSize, 100)
        /\ After.FileMaxBackup = Resolved(last.before.FileMaxBackup, 3)
        /\ After.FileMaxAge = Resolved(last.before.FileMaxAge, 30)
        /\ last.before.FilenameOrIoWriter.type = "string" =>
              /\ last.zl.logWriter.MaxSize = Resolved(last.before.FileMaxSize, 100)
              /\ last.zl.logWriter.MaxBackups = Resolved(last.before.FileMaxBackup, 3)
              /\ last.zl.logWriter.MaxAge = Resolved(last.before.FileMaxAge, 30)

\* A construction from a path with one threshold supplied and two defaulted,
\* one of them from zero and one from a negative value.
C4_Witness ==
    /\ Constructed
    /\ last.before.FilenameOrIoWriter.type = "string"
    /\ last.before.FileMaxSize = 0
    /\ last.before.FileMaxBackup = 1
    /\ last.before.FileMaxAge = -1
    /\ last.zl.logWriter.MaxBackups = 1

\* C5: getWriter decides on the type of the destination: a path gives a new
\* rotating file sink for that path with the configuration's size, backup,
\* age and compression settings and no error; a byte sink gives that very
\* sink and no error; anything else gives an error and no sink.
C5_Resolution ==
    gw.called =>
        LET d == gw.config.FilenameOrIoWriter IN
        /\ d.type = "string" =>
              /\ ~gw.res.err
              /\ gw.res.w.type = "*lumberjack.Logger"
              /\ gw.res.w.Filename = d.val
              /\ gw.res.w.MaxSize = gw.config.FileMaxSize
              /\ gw.res.w.MaxBackups = gw.config.FileMaxBackup
              /\ gw.res.w.MaxAge = gw.config.FileMaxAge
              /\ gw.res.w.Compress = gw.config.FileCompress
        /\ d.type \in {"*os.File", "*NullWriter", "*ZapLogWriter"} =>
              ~gw.res.err /\ gw.res.w = d
        /\ d.type \in {"nil", "int"} =>
              gw.res.err /\ gw.res.w = NilWriter

\* getWriter has resolved a path whose age and backup thresholds differ.
C5_Witness ==
    /\ gw.called
    /\ gw.config.FilenameOrIoWriter.type = "string"
    /\ gw.config.FileMaxAge # gw.config.FileMaxBackup
    /\ ~gw.res.err

\* C6: when the first resolution fails the destination of the configuration
\* becomes standard output and resolution is tried once more, with nothing
\* logged; the handle then writes to standard output, and the call panics
\* exactly when the second resolution fails too.  When the first resolution
\* succeeds the destination stays as supplied and there is no second try.
C6_Fallback ==
    Constructed =>
        /\ last.emitted = << >>
        /\ last.first.err =>
              /\ After.FilenameOrIoWriter = Stdout
              /\ last.attempts = 2
              /\ ~last.final.err => last.zl.logWriter = Stdout
        /\ last.panicked <=> (last.first.err /\ last.final.err)
        /\ ~last.first.err =>
              /\ After.FilenameOrIoWriter = last.before.FilenameOrIoWriter
              /\ last.attempts = 1

\* A construction whose first resolution failed and whose handle writes to
\* standard output.
C6_Witness ==
    /\ Constructed
    /\ last.before.FilenameOrIoWriter.type = "int"
    /\ last.first.err
    /\ last.attempts = 2
    /\ last.zl.logWriter = Stdout

\* C8: once a handle has been constructed from a configuration, no operation
\* of the package changes a field of it; constructing a further handle from
\* it (NewZapLogger or InitDefaultLogger) leaves it as it is.
C8_ConfigFrozen ==
    [][\A c \in built : configs'[c] = configs[c]]_vars

\* A second construction from a configuration that the first had changed.
C8_Witness ==
    /\ Constructed
    /\ last.cfg \in built
    /\ last.before = After
    /\ last.before.FileMaxSize = DefaultMaxSize
    /\ last.before.FileMaxAge = DefaultMaxAge
    /\ last.zl.id > 2

\* C10: NewZapLogger returns a handle with a resolved sink whatever the
\* destination of the (non-nil) configuration: the retry against standard
\* output succeeds, line 62 is never reached, and InitDefaultLogger (that of
\* init() included) ends with the exclusive lock released.
C10_NoFatal ==
    /\ proc \in {"boot", "running"}
    /\ wholder = 0
    /\ proc = "running" =>
          defaultZapLogger # NilLogger /\ defaultZapLogger.logWriter # NilWriter
    /\ Constructed =>
          /\ ~last.panicked
          /\ ~last.final.err
          /\ last.zl # NilLogger
          /\ last.zl.logWriter # NilWriter

\* InitDefaultLogger has returned for a configuration without a destination.
C10_Witness ==
    /\ Constructed
    /\ last.op = "InitDefaultLogger"
    /\ last.before.FilenameOrIoWriter = NilIface
    /\ last.attempts = 2
    /\ defaultZapLogger = last.zl

----------------------------------------------------------------------------
(* Properties of the global slot, checked under Spec *)

\* The frames on the goroutines' stacks.
FramesOf(t) == {stack[t][i] : i \in 1 .. Depth(t)}
AllFrames == UNION {FramesOf(t) : t \in Threads}

\* A frame between its RLock and its RUnlock.
HoldsRead(f) == f.op \in {"emit", "write"} /\ f.pc \in {"deleg", "logged", "runlock"}
\* A frame between its Lock and its Unlock.
HoldsWrite(f) == f.op = "init" /\ f.pc \in {"new", "unlock"}

ReadHeldBy(t) == Cardinality({i \in 1 .. Depth(t) : HoldsRead(stack[t][i])})
RECURSIVE SumRead(_)
SumRead(T) ==
    IF T = {} THEN 0
    ELSE LET t == CHOOSE x \in T : TRUE IN ReadHeldBy(t) + SumRead(T \ {t})

AllReturned == \A t \in Threads : Depth(t) = 0

\* C1: no read of the slot overlaps a write of it: no frame has read the slot
\* while a goroutine was between InitDefaultLogger's Lock and Unlock, no
\* frame holds the read lock then, and at most one goroutine is there.
C1_NoReadDuringWrite ==
    /\ \A f \in AllFrames : ~f.raced
    /\ WriterInSection => \A f \in AllFrames : ~HoldsRead(f)
    /\ Cardinality({t \in Threads : \E f \in FramesOf(t) : HoldsWrite(f)}) <= 1

\* C2: with InitDefaultLogger calls and global emissions interleaved, no call
\* panics or overflows the stack, no emission reads a nil slot, every
\* emission issues one log call, on the handle the slot holds while the
\* emission holds the read lock, and once every call has returned the slot
\* holds the handle built by the call that acquired the exclusive lock last.
C2_Reinit ==
    /\ fault.kind # "none" => fault.frames[1].op \notin {"emit", "init"}
    /\ \A f \in AllFrames : f.op = "emit" =>
          /\ f.h # 0
          /\ f.ncalls <= 1
          /\ f.pc \in {"logged", "runlock"} =>
                f.ncalls = 1 /\ f.h = defaultZapLogger.id
    /\ (proc = "running" /\ AllReturned) =>
          wholder = 0 /\ defaultZapLogger # NilLogger /\ defaultZapLogger.id = acq

\* C3: in a process that keeps running the lock is held only by operations
\* in progress: every read lock counted belongs to a frame between its RLock
\* and its RUnlock, and the writer is a goroutine inside InitDefaultLogger.
C3_HeldOnlyInProgress ==
    proc = "running" =>
        /\ readerCount = SumRead(Threads)
        /\ wholder # 0 =>
              \E f \in FramesOf(wholder) : f.op = "init" /\ f.pc \in {"wait", "new", "unlock"}

\* C9: no goroutine acquires resetLock while it holds it: the frames of one
\* goroutine hold at most one lock of resetLock between them.
C9_NoReentrancy ==
    \A t \in Threads :
        Cardinality({i \in 1 .. Depth(t) :
                        HoldsRead(stack[t][i]) \/ HoldsWrite(stack[t][i])}) <= 1

\* The severity a label is bound to: the six words in lower or upper case,
\* info for anything else.
BoundSeverity(label) ==
    IF label \in {"debug", "info", "warn", "error", "panic", "fatal"} THEN label
    ELSE IF label = "DEBUG" THEN "debug"
    ELSE IF label = "INFO" THEN "info"
    ELSE IF label = "WARN" THEN "warn"
    ELSE IF label = "ERROR" THEN "error"
    ELSE IF label = "PANIC" THEN "panic"
    ELSE IF label = "FATAL" THEN "fatal"
    ELSE "info"

\* What holds of a Write frame f at every label: one log call at most, and
\* once it is issued it was the whole buffer at the bound severity, on the
\* handle in the slot; the empty label logs as "info" does.
WriteLogsOnce(f) ==
    /\ f.ncalls <= 1
    /\ f.pc \in {"logged", "runlock", "ret"} =>
          /\ f.ncalls = 1
          /\ f.msg = f.b
          /\ f.lvl = BoundSeverity(f.arg)
          /\ f.arg = "" => f.lvl = BoundSeverity("info")
          /\ f.h > 0
    /\ f.pc \in {"logged", "runlock"} => f.h = defaultZapLogger.id
    /\ f.pc = "ret" => f.n = Len(f.b)

\* C7 as stated: at every label Write issues its one log call and returns
\* (len(b), nil): no Write ends in a panic or ends the process.
C7_WriteReturns ==
    /\ \A f \in AllFrames : f.op = "write" => WriteLogsOnce(f)
    /\ fault.kind = "panic" => fault.frames[Len(fault.frames)].op # "write"
    /\ proc = "exited" =>
          \A f \in AllFrames : ~(f.op = "write" /\ f.pc = "logged" /\ f.lvl = "fatal")

\* C7 amended: at every label Write issues one log call, the whole buffer at
\* the bound severity on the handle in the slot, and returns (len(b), nil)
\* when that call returns; a Write that panics is one bound to panic, which
\* leaves after its log call, and a Write that ends the process is one bound
\* to fatal.
C7_WriteLogs ==
    /\ \A f \in AllFrames : f.op = "write" =>
          /\ WriteLogsOnce(f)
          /\ f.pc \in {"runlock", "ret"} => f.lvl \notin {"panic", "fatal"}
    /\ (fault.kind = "panic" /\ fault.frames[Len(fault.frames)].op = "write") =>
          LET f == fault.frames[Len(fault.frames)] IN
          /\ BoundSeverity(f.arg) = "panic"
          /\ f.ncalls = 1 /\ f.msg = f.b /\ f.lvl = "panic" /\ f.n = -1
    /\ proc = "exited" =>
          \A t \in Threads : At(t, {"write"}, "logged") =>
                BoundSeverity(Top(t).arg) = "fatal" /\ Top(t).lvl = "fatal"

\* A Write with an upper-case label is about to return the length of its
\* non-empty buffer, having logged on a handle that replaced the first.
C7_Witness ==
    \E t \in Threads :
        /\ At(t, {"write"}, "ret")
        /\ Top(t).arg = "WARN"
        /\ Top(t).b # << >>
        /\ Top(t).n = 2
        /\ Top(t).lvl = "warn"
        /\ Top(t).h > 1

====
